---- MODULE Spec2Model ----
(***************************************************************************)
(* Model of train.py of robert4qa-distributed: the per-fold training loop  *)
(* (train), the epoch drivers (train_fn, eval_fn), the span scoring        *)
(* (cal_jaccard) and the multi-process run of the script.                  *)
(*                                                                         *)
(* utils.py (AverageMeter, EarlyStopping, jaccard) is not part of the      *)
(* sources at hand; those three are modelled from the specification text.  *)
(***************************************************************************)
EXTENDS Integers, Sequences, FiniteSets, TLC

\* ------------------------------------------------------------------ bounds
MaxWorld == 2       \* processes of the process group (and visible devices)
MaxEpochs == 3      \* --epochs
MaxPatience == 2    \* --patience
MaxTrain == 3       \* len(df_train)
MaxValid == 3       \* len(df_valid)
MaxBatch == 2       \* --train_batch_size, --valid_batch_size
MaxTweetLen == 3    \* characters of a tweet handed to cal_jaccard

\* ------------------------------------------------------- program constants
distributed == TRUE
NumFolds == 5

\* --------------------------------------------------------------- rationals
\* Python floats are modelled as exact rationals <<numerator, denominator>>,
\* kept in lowest terms with a positive denominator.
RECURSIVE GCD(_, _)
GCD(a, b) == IF b = 0 THEN a ELSE GCD(b, a % b)

Abs(a) == IF a < 0 THEN -a ELSE a

Rat(n, d) ==
    LET g == GCD(Abs(n), Abs(d))
        s == IF d < 0 THEN -1 ELSE 1
    IN  << (s * n) \div g, (s * d) \div g >>

RInt(n) == << n, 1 >>
RAdd(x, y) == Rat(x[1] * y[2] + y[1] * x[2], x[2] * y[2])
RMul(x, y) == Rat(x[1] * y[1], x[2] * y[2])
RDiv(x, y) == Rat(x[1] * y[2], x[2] * y[1])
RLess(x, y) == x[1] * y[2] < y[1] * x[2]

RECURSIVE RSum(_)
RSum(xs) == IF xs = << >> THEN RInt(0) ELSE RAdd(xs[1], RSum(Tail(xs)))

\* np.mean of a non-empty list
np_mean(xs) == RDiv(RSum(xs), RInt(Len(xs)))

\* ----------------------------------------------------------------- strings
\* A string is a sequence of characters; " " is the only whitespace.
Chars == {"a", " "}

\* Python slice s[a:b] for 0 <= a, 0 <= b: indices past the end are clamped.
Slice(s, a, b) ==
    LET hi == IF b > Len(s) THEN Len(s) ELSE b
    IN  IF a >= hi THEN << >> ELSE SubSeq(s, a + 1, hi)

\* str.split(): the maximal runs of non-whitespace characters, as a set.
RECURSIVE SplitFrom(_, _, _)
SplitFrom(s, i, cur) ==
    IF i > Len(s)
    THEN IF cur = << >> THEN {} ELSE {cur}
    ELSE IF s[i] = " "
         THEN (IF cur = << >> THEN {} ELSE {cur}) \cup SplitFrom(s, i + 1, << >>)
         ELSE SplitFrom(s, i + 1, Append(cur, s[i]))

TokenSet(s) == SplitFrom(s, 1, << >>)

\* utils.jaccard: token-set Jaccard similarity, 1.0 when both sets are empty.
utils_jaccard(str1, str2) ==
    LET a == TokenSet(str1)
        b == TokenSet(str2)
        c == a \cap b
    IN  IF a = {} /\ b = {} THEN RInt(1)
        ELSE Rat(Cardinality(c), Cardinality(a) + Cardinality(b) - Cardinality(c))

\* ------------------------------------------------------------- cal_jaccard
\* lines 28-32: clamp the end index, then concatenate the offset slices.
RECURSIVE ConcatSlices(_, _, _, _)
ConcatSlices(tweet, input_offsets, idx, idx_end) ==
    IF idx > idx_end THEN << >>
    ELSE Slice(tweet, input_offsets[idx + 1][1], input_offsets[idx + 1][2])
         \o ConcatSlices(tweet, input_offsets, idx + 1, idx_end)

extract_span_text_noclamp(tweet, idx_start, idx_end, input_offsets) ==
    ConcatSlices(tweet, input_offsets, idx_start, idx_end)

extract_span_text(tweet, idx_start, idx_end, input_offsets) ==
    LET end == IF idx_end < idx_start THEN idx_start ELSE idx_end
    IN  ConcatSlices(tweet, input_offsets, idx_start, end)

cal_jaccard_tweet(tweet, target, idx_start, idx_end, input_offsets) ==
    LET output == extract_span_text(tweet, idx_start, idx_end, input_offsets)
    IN  [jac |-> utils_jaccard(target, tweet), output |-> output]

cal_jaccard(tweet, target, idx_start, idx_end, input_offsets) ==
    LET output == extract_span_text(tweet, idx_start, idx_end, input_offsets)
    IN  [jac |-> utils_jaccard(target, output), output |-> output]

\* ------------------------------------------------------ utils.AverageMeter
\* Running sum and running sample count of a scalar, with the current average.
AverageMeter == [sum |-> RInt(0), count |-> 0, avg |-> RInt(0)]

AverageMeter_update(m, val, n) ==
    LET s == RAdd(m.sum, RMul(val, RInt(n)))
        c == m.count + n
    IN  [sum |-> s, count |-> c, avg |-> RDiv(s, RInt(c))]

\* ----------------------------------------------------- utils.EarlyStopping
NoScore == << >>

EarlyStopping(patience, mode) ==
    [patience |-> patience, mode |-> mode, counter |-> 0,
     best_score |-> NoScore, early_stop |-> FALSE]

Improves_or_equal(es, score) ==
    IF es.mode = "max" THEN ~RLess(score, es.best_score)
    ELSE ~RLess(es.best_score, score)

\* strict comparison: an equal value is no improvement
Improves(es, score) ==
    IF es.mode = "max" THEN RLess(es.best_score, score)
    ELSE RLess(score, es.best_score)

\* es(epoch_score, model, model_path): the new controller state, and whether
\* the model snapshot is persisted to model_path by this call.
EarlyStopping_call(es, epoch_score) ==
    IF es.best_score = NoScore \/ Improves(es, epoch_score)
    THEN [es   |-> [es EXCEPT !.best_score = epoch_score, !.counter = 0],
          save |-> TRUE]
    ELSE [es   |-> [es EXCEPT !.counter = @ + 1,
                              !.early_stop = (es.counter + 1 >= es.patience)],
          save |-> FALSE]

\* ------------------------------------------------------------------- state
VARIABLES
    cfg,          \* command line and environment of the run (read-only)
    pc,           \* per process: position in the script
    fold,         \* per process: fold argument of the current train() call
    epoch,        \* per process: loop variable of the epoch loop
    bi,           \* per process: batches consumed in the running train_fn / eval_fn
    es,           \* per process: the EarlyStopping object of the current fold
    losses,       \* per process: AverageMeter of the running train_fn / eval_fn
    jaccards,     \* per process: AverageMeter of the running train_fn / eval_fn
    jaccard,      \* per process: value returned by the last eval_fn
    model,        \* per process: the (wrapped) TweetModel of the current fold
    optimizer,    \* per process: AdamW of the current fold
    scheduler,    \* per process: linear warmup schedule of the current fold
    num_device,   \* per process: local num_device of train(), 0 = unbound
    train_sampler,\* per process: DistributedSampler of the training set
    files,        \* ./bin/model_<fold>.bin, per fold
    writers,      \* <<rank, path>> of every snapshot write so far
    progress,     \* <<rank, phase>> of every per-batch progress report so far
    jaccardLog,   \* per process: "Jaccard Score = " lines printed in this fold
    evalLog,      \* per process: <<batch mean score, batch size>> of the batches
                  \* scored by eval_fn, until its result has been reported
    cj,           \* inputs and result of one cal_jaccard call
    resources     \* per process: <<fold, name>> of the objects of train() calls
                  \* that are still referenced

vars == << cfg, pc, fold, epoch, bi, es, losses, jaccards, jaccard, model,
           optimizer, scheduler, num_device, train_sampler, files, writers,
           progress, jaccardLog, evalLog, cj, resources >>

Ranks == 0 .. (cfg.world_size - 1)
Folds == 0 .. (NumFolds - 1)

\* loss.item() and the per-sample jaccard scores depend on the model
\* collaborator; they are drawn from these values. The loss feeds the loss
\* accumulator and the progress bar only, no branch of the program reads it.
LossVals == { RInt(1) }
SampleScores == { RInt(0), RInt(1) }

\* ----------------------------------------------------------------- loaders
CeilDiv(a, b) == (a + b - 1) \div b

\* samples a process draws per epoch: DistributedSampler pads the data set
\* so that every rank gets ceil(len / world_size) samples.
SamplerLen(n) == IF distributed THEN CeilDiv(n, cfg.world_size) ELSE n

\* DataLoader: the sizes of the batches of one pass, drop_last = False.
Batches(n, b) ==
    [i \in 1 .. CeilDiv(n, b) |-> IF i * b <= n THEN b ELSE n - (i - 1) * b]

train_data_loader == Batches(SamplerLen(cfg.len_df_train), cfg.train_batch_size)
valid_data_loader == Batches(SamplerLen(cfg.len_df_valid), cfg.valid_batch_size)

\* ------------------------------------------------------------------- files
NoFile == [exists |-> FALSE, fold |-> 0, epoch |-> 0, version |-> 0]

model_path_zero(f) == 0

\* f"./bin/model_{fold}.bin", named by its fold number
model_path(f) == f

\* line 205: who reports the score and calls the controller
IsReporter_all(p) == TRUE

IsReporter(p) == ~distributed \/ (distributed /\ p = 0)

NewEarlyStopping_min(patience) == EarlyStopping(patience, "min")

NewEarlyStopping_late(patience) == EarlyStopping(patience + 1, "max")

\* line 193
NewEarlyStopping(patience) == EarlyStopping(patience, "max")

\* -------------------------------------------------------------------- Init
NoCall == [called |-> FALSE, tweet |-> << >>, target |-> << >>, idx_start |-> 0,
           idx_end |-> 0, input_offsets |-> << >>, jac |-> RInt(0), output |-> << >>]

AllConfigs ==
    [world_size : 1 .. MaxWorld, device_count : 1 .. MaxWorld,
     epochs : 1 .. MaxEpochs, patience : 1 .. MaxPatience,
     len_df_train : 1 .. MaxTrain, len_df_valid : 1 .. MaxValid,
     train_batch_size : 1 .. MaxBatch, valid_batch_size : 1 .. MaxBatch]

\* one training sample and two validation samples, in one batch each
SmallData(c) ==
    /\ c.len_df_train = 1 /\ c.train_batch_size = 1
    /\ c.len_df_valid = 2 /\ c.valid_batch_size = 2

\* The runs explored, by process count, epochs, patience and data size:
\*  - patience 1 with every epoch count on small data, for one and two
\*    processes (a larger group runs one epoch);
\*  - one process with patience p and p + 1 epochs on small data, the shortest
\*    fold in which p non-improvements in a row can follow a best value;
\*  - one epoch of one process on every data and batch size;
\*  - one epoch of two processes on every training-set size.
Configs ==
    { c \in AllConfigs :
        \* torch.cuda.set_device(local_rank) needs a device per rank; one
        \* process is also run with a single device and with a spare one
        /\ c.world_size <= c.device_count
        /\ c.world_size = 1 => c.device_count <= 2
        /\ \/ /\ SmallData(c) /\ c.patience = 1
              /\ c.world_size > 2 => c.epochs = 1
           \/ SmallData(c) /\ c.world_size = 1 /\ c.epochs = c.patience + 1
           \/ c.world_size = 1 /\ c.epochs = 1 /\ c.patience = 1
           \/ /\ c.world_size = 2 /\ c.epochs = 1 /\ c.patience = 1
              /\ c.train_batch_size = 1
              /\ c.len_df_valid = 2 /\ c.valid_batch_size = 2 }

InitProcs ==
    /\ pc = [p \in Ranks |-> "start"]
    /\ fold = [p \in Ranks |-> 0]
    /\ epoch = [p \in Ranks |-> 0]
    /\ bi = [p \in Ranks |-> 0]
    /\ es = [p \in Ranks |-> EarlyStopping(0, "none")]
    /\ losses = [p \in Ranks |-> AverageMeter]
    /\ jaccards = [p \in Ranks |-> AverageMeter]
    /\ jaccard = [p \in Ranks |-> RInt(0)]
    /\ model = [p \in Ranks |-> [live |-> FALSE, training |-> FALSE, ddp |-> FALSE,
                                 version |-> 0, grads |-> 0]]
    /\ optimizer = [p \in Ranks |-> [live |-> FALSE, steps |-> 0, lr_mult |-> 0]]
    /\ scheduler = [p \in Ranks |-> [live |-> FALSE, steps |-> 0, num_training_steps |-> 0]]
    /\ num_device = [p \in Ranks |-> 0]
    /\ train_sampler = [p \in Ranks |-> [live |-> FALSE, epoch |-> 0]]
    /\ files = [f \in Folds |-> NoFile]
    /\ writers = {}
    /\ progress = {}
    /\ jaccardLog = [p \in Ranks |-> << >>]
    /\ evalLog = [p \in Ranks |-> << >>]
    /\ resources = [p \in Ranks |-> {}]

Init ==
    /\ cfg \in Configs
    /\ InitProcs
    /\ cj = NoCall

\* ----------------------------------------------------------------- actions
procVars == << pc, fold, epoch, bi, es, losses, jaccards, jaccard, model,
               optimizer, scheduler, num_device, train_sampler, jaccardLog, evalLog >>

\* train(), lines 115-175: data sets, samplers, loaders, the model; with more
\* than one visible device num_device is bound and the model is handed to
\* DistributedDataParallel, whose constructor is a collective of the group.
TrainSetup(p) ==
    /\ pc[p] = "start"
    /\ model' = [model EXCEPT ![p] = [live |-> TRUE, training |-> TRUE, ddp |-> FALSE,
                                      version |-> 0, grads |-> 0]]
    /\ train_sampler' = [train_sampler EXCEPT ![p] = [live |-> distributed, epoch |-> 0]]
    /\ resources' = [resources EXCEPT ![p] =
                        @ \cup { << fold[p], n >> : n \in {"datasets", "loaders", "model"} }]
    /\ IF cfg.device_count > 1
       THEN /\ num_device' = [num_device EXCEPT ![p] = cfg.device_count]
            /\ pc' = [pc EXCEPT ![p] = "ddp_init"]
       ELSE /\ num_device' = [num_device EXCEPT ![p] = 0]
            /\ pc' = [pc EXCEPT ![p] = "build_opt"]
    /\ UNCHANGED << cfg, fold, epoch, bi, es, losses, jaccards, jaccard, optimizer,
                    scheduler, files, writers, progress, jaccardLog, evalLog, cj >>

\* lines 172-175: the constructor returns once every rank has entered it.
DDPInit ==
    /\ \A p \in Ranks : pc[p] = "ddp_init" /\ fold[p] = fold[0]
    /\ pc' = [p \in Ranks |-> "build_opt"]
    /\ model' = [p \in Ranks |-> [model[p] EXCEPT !.ddp = TRUE]]
    /\ UNCHANGED << cfg, fold, epoch, bi, es, losses, jaccards, jaccard, optimizer,
                    scheduler, num_device, train_sampler, files, writers, progress,
                    jaccardLog, evalLog, cj, resources >>

\* line 178
num_train_steps == (cfg.len_df_train * cfg.epochs) \div cfg.train_batch_size

\* lines 178-194: optimizer (lr * num_device), scheduler, controller. Reading
\* the unbound local num_device raises NameError, which ends the process.
BuildOptimizer(p) ==
    /\ pc[p] = "build_opt"
    /\ IF num_device[p] = 0
       THEN /\ pc' = [pc EXCEPT ![p] = "crashed"]
            /\ UNCHANGED << optimizer, scheduler, es, epoch, jaccardLog, resources >>
       ELSE /\ optimizer' = [optimizer EXCEPT ![p] =
                                [live |-> TRUE, steps |-> 0, lr_mult |-> num_device[p]]]
            /\ scheduler' = [scheduler EXCEPT ![p] =
                                [live |-> TRUE, steps |-> 0,
                                 num_training_steps |-> num_train_steps]]
            /\ es' = [es EXCEPT ![p] = NewEarlyStopping(cfg.patience)]
            /\ jaccardLog' = [jaccardLog EXCEPT ![p] = << >>]
            /\ epoch' = [epoch EXCEPT ![p] = 0]
            /\ resources' = [resources EXCEPT ![p] =
                                @ \cup { << fold[p], n >> : n \in {"optimizer", "scheduler"} }]
            /\ pc' = [pc EXCEPT ![p] = "loop"]
    /\ UNCHANGED << cfg, fold, bi, losses, jaccards, jaccard, model, num_device,
                    train_sampler, files, writers, progress, evalLog, cj >>

\* lines 196-199 and 37-42: the next epoch of range(epochs) starts; the sampler
\* is re-seeded and train_fn is entered.
EpochBegin(p) ==
    /\ pc[p] = "loop"
    /\ epoch[p] < cfg.epochs
    /\ train_sampler' = [train_sampler EXCEPT ![p] =
                            IF distributed THEN [@ EXCEPT !.epoch = epoch[p]] ELSE @]
    /\ model' = [model EXCEPT ![p].training = TRUE]
    /\ losses' = [losses EXCEPT ![p] = AverageMeter]
    /\ jaccards' = [jaccards EXCEPT ![p] = AverageMeter]
    /\ bi' = [bi EXCEPT ![p] = 0]
    /\ pc' = [pc EXCEPT ![p] = "train"]
    /\ UNCHANGED << cfg, fold, epoch, es, jaccard, optimizer, scheduler, num_device,
                    files, writers, progress, jaccardLog, evalLog, cj, resources >>

\* line 196: range(epochs) is exhausted.
EpochsExhausted(p) ==
    /\ pc[p] = "loop"
    /\ epoch[p] >= cfg.epochs
    /\ pc' = [pc EXCEPT ![p] = "cleanup"]
    /\ UNCHANGED << cfg, fold, epoch, bi, es, losses, jaccards, jaccard, model,
                    optimizer, scheduler, num_device, train_sampler, files, writers,
                    progress, jaccardLog, evalLog, cj, resources >>

zero_grad_keep(g) == g

\* line 54: model.zero_grad() drops the accumulated gradients; the model
\* carries the number of backward passes accumulated in its gradients
zero_grad(g) == 0

\* line 58: loss.backward() adds this batch's gradients
backward(g) == g + 1

\* lines 44-58: the next batch is taken, gradients cleared, forward pass, loss,
\* backward pass; the backward pass of the wrapped model joins the gradient
\* all-reduce of the group.
TrainForward(p) ==
    /\ pc[p] = "train"
    /\ bi[p] < Len(train_data_loader)
    /\ model' = [model EXCEPT ![p].grads = backward(zero_grad(@))]
    /\ pc' = [pc EXCEPT ![p] = "allreduce"]
    /\ UNCHANGED << cfg, fold, epoch, bi, es, losses, jaccards, jaccard,
                    optimizer, scheduler, num_device, train_sampler, files, writers,
                    progress, jaccardLog, evalLog, cj, resources >>

\* line 58: the all-reduce completes once every rank has entered it.
GradReduce ==
    /\ \A p \in Ranks : pc[p] = "allreduce"
    /\ pc' = [p \in Ranks |-> "update"]
    /\ UNCHANGED << cfg, fold, epoch, bi, es, losses, jaccards, jaccard, model,
                    optimizer, scheduler, num_device, train_sampler, files, writers,
                    progress, jaccardLog, evalLog, cj, resources >>

ShowsProgress_rank0(p) == p = 0

\* lines 73 and 110: tk.set_postfix(...) is called by whichever process runs
\* the loop
ShowsProgress(p) == TRUE

batch_at_first(loader, i) == loader[1]

\* lines 44 and 84: the batch d that enumerate(tk) yields with index i
batch_at(loader, i) == loader[i + 1]

\* the mean of the per-sample scores of a batch of n samples, lines 65-71
BatchScores(n) == { np_mean(sc) : sc \in [1 .. n -> SampleScores] }

\* line 59: optimizer.step() applies the gradients to the parameters.
OptimizerStep(p) ==
    /\ pc[p] = "update"
    /\ optimizer' = [optimizer EXCEPT ![p].steps = @ + 1]
    /\ model' = [model EXCEPT ![p].version = @ + 1]
    /\ pc' = [pc EXCEPT ![p] = "sched_step"]
    /\ UNCHANGED << cfg, fold, epoch, bi, es, losses, jaccards, jaccard, scheduler,
                    num_device, train_sampler, files, writers, progress, jaccardLog,
                    evalLog, cj, resources >>

\* lines 60-73: scheduler step, scores, accumulators, progress.
TrainUpdate(p) ==
    /\ pc[p] = "sched_step"
    /\ scheduler' = [scheduler EXCEPT ![p].steps = @ + 1]
    /\ LET n == batch_at(train_data_loader, bi[p]) IN
       \E loss \in LossVals, score \in BatchScores(n) :
          /\ jaccards' = [jaccards EXCEPT ![p] = AverageMeter_update(@, score, n)]
          /\ losses' = [losses EXCEPT ![p] = AverageMeter_update(@, loss, n)]
    /\ progress' = IF ShowsProgress(p) THEN progress \cup { << p, "train" >> } ELSE progress
    /\ bi' = [bi EXCEPT ![p] = @ + 1]
    /\ pc' = [pc EXCEPT ![p] = "train"]
    /\ UNCHANGED << cfg, fold, epoch, es, jaccard, model, optimizer, num_device,
                    train_sampler, files, writers, jaccardLog, evalLog, cj, resources >>

\* lines 44 and 76-82: the training loader is exhausted, train_fn returns and
\* eval_fn is entered.
EvalBegin(p) ==
    /\ pc[p] = "train"
    /\ bi[p] >= Len(train_data_loader)
    /\ model' = [model EXCEPT ![p].training = FALSE]
    /\ losses' = [losses EXCEPT ![p] = AverageMeter]
    /\ jaccards' = [jaccards EXCEPT ![p] = AverageMeter]
    /\ bi' = [bi EXCEPT ![p] = 0]
    /\ pc' = [pc EXCEPT ![p] = "eval"]
    /\ UNCHANGED << cfg, fold, epoch, es, jaccard, optimizer, scheduler, num_device,
                    train_sampler, files, writers, progress, jaccardLog, evalLog, cj, resources >>

eval_weight_one(n) == 1

\* line 108: the weight of a batch in the running average, input_ids.size(0)
eval_weight(n) == n

eval_forward_backward(m) == [m EXCEPT !.grads = @ + 1, !.version = @ + 1]

\* lines 81 and 95-96: forward pass and loss under torch.no_grad(); no
\* gradient is recorded and no parameter is written
eval_forward(m) == m

\* lines 84-110: one evaluation batch.
EvalBatch(p) ==
    /\ pc[p] = "eval"
    /\ bi[p] < Len(valid_data_loader)
    /\ LET n == batch_at(valid_data_loader, bi[p]) IN
       \E loss \in LossVals, score \in BatchScores(n) :
          /\ jaccards' = [jaccards EXCEPT ![p] = AverageMeter_update(@, score, eval_weight(n))]
          /\ losses' = [losses EXCEPT ![p] = AverageMeter_update(@, loss, n)]
          /\ evalLog' = [evalLog EXCEPT ![p] = Append(@, << score, n >>)]
    /\ progress' = IF ShowsProgress(p) THEN progress \cup { << p, "eval" >> } ELSE progress
    /\ model' = [model EXCEPT ![p] = eval_forward(@)]
    /\ bi' = [bi EXCEPT ![p] = @ + 1]
    /\ UNCHANGED << cfg, pc, fold, epoch, es, jaccard, optimizer, scheduler,
                    num_device, train_sampler, files, writers, jaccardLog, cj, resources >>

\* lines 84, 112 and 200: the loader is exhausted, eval_fn returns jaccards.avg;
\* its locals (the two accumulators, the batch index) end with the call.
EvalReturn(p) ==
    /\ pc[p] = "eval"
    /\ bi[p] >= Len(valid_data_loader)
    /\ jaccard' = [jaccard EXCEPT ![p] = jaccards[p].avg]
    /\ losses' = [losses EXCEPT ![p] = AverageMeter]
    /\ jaccards' = [jaccards EXCEPT ![p] = AverageMeter]
    /\ bi' = [bi EXCEPT ![p] = 0]
    /\ pc' = [pc EXCEPT ![p] = "report"]
    /\ UNCHANGED << cfg, fold, epoch, es, model, optimizer, scheduler, num_device,
                    train_sampler, files, writers, progress, jaccardLog, evalLog, cj, resources >>

\* lines 205-210: on the reporting process the score is printed and fed to the
\* controller, which may persist the model; the loop is left when the
\* controller has set early_stop. Every other process goes on to the next epoch.
Report(p) ==
    /\ pc[p] = "report"
    /\ IF IsReporter(p)
       THEN LET r == EarlyStopping_call(es[p], jaccard[p])
                path == model_path(fold[p])
            IN  /\ jaccardLog' = [jaccardLog EXCEPT ![p] = Append(@, jaccard[p])]
                /\ es' = [es EXCEPT ![p] = r.es]
                /\ IF r.save
                   THEN /\ files' = [files EXCEPT ![path] =
                                        [exists |-> TRUE, fold |-> fold[p],
                                         epoch |-> epoch[p],
                                         version |-> model[p].version]]
                        /\ writers' = writers \cup { << p, path >> }
                   ELSE UNCHANGED << files, writers >>
                /\ IF r.es.early_stop
                   THEN /\ pc' = [pc EXCEPT ![p] = "cleanup"]
                        /\ UNCHANGED epoch
                   ELSE /\ pc' = [pc EXCEPT ![p] = "loop"]
                        /\ epoch' = [epoch EXCEPT ![p] = @ + 1]
       ELSE /\ pc' = [pc EXCEPT ![p] = "loop"]
            /\ epoch' = [epoch EXCEPT ![p] = @ + 1]
            /\ UNCHANGED << es, files, writers, jaccardLog >>
    /\ evalLog' = [evalLog EXCEPT ![p] = << >>]
    /\ UNCHANGED << cfg, fold, bi, losses, jaccards, jaccard, model, optimizer,
                    scheduler, num_device, train_sampler, progress, cj, resources >>

release_none(res, f) == res

\* lines 212-215: del drops the names of the fold's model, optimizer,
\* scheduler, data frames, data sets and loaders, the return of train() drops
\* its remaining locals; what fold f built is no longer referenced
release(res, f) == { r \in res : r[1] # f }

\* lines 212-215 and 285-289: the fold's objects are released, train() returns
\* and the script calls train() for the next fold, or ends after the last.
Cleanup(p) ==
    /\ pc[p] = "cleanup"
    /\ model' = [model EXCEPT ![p].live = FALSE]
    /\ optimizer' = [optimizer EXCEPT ![p].live = FALSE]
    /\ scheduler' = [scheduler EXCEPT ![p].live = FALSE]
    /\ train_sampler' = [train_sampler EXCEPT ![p].live = FALSE]
    /\ resources' = [resources EXCEPT ![p] = release(@, fold[p])]
    /\ IF fold[p] + 1 < NumFolds
       THEN /\ fold' = [fold EXCEPT ![p] = @ + 1]
            /\ pc' = [pc EXCEPT ![p] = "start"]
       ELSE /\ pc' = [pc EXCEPT ![p] = "done"]
            /\ UNCHANGED fold
    /\ UNCHANGED << cfg, epoch, bi, es, losses, jaccards, jaccard, num_device, files,
                    writers, progress, jaccardLog, evalLog, cj >>

Next ==
    \/ \E p \in Ranks : TrainSetup(p)
    \/ DDPInit
    \/ \E p \in Ranks : BuildOptimizer(p)
    \/ \E p \in Ranks : EpochBegin(p)
    \/ \E p \in Ranks : EpochsExhausted(p)
    \/ \E p \in Ranks : TrainForward(p)
    \/ GradReduce
    \/ \E p \in Ranks : OptimizerStep(p)
    \/ \E p \in Ranks : TrainUpdate(p)
    \/ \E p \in Ranks : EvalBegin(p)
    \/ \E p \in Ranks : EvalBatch(p)
    \/ \E p \in Ranks : EvalReturn(p)
    \/ \E p \in Ranks : Report(p)
    \/ \E p \in Ranks : Cleanup(p)

Spec == Init /\ [][Next]_vars

\* ------------------------------------------------- cal_jaccard on its own
RECURSIVE Strings(_)
Strings(n) ==
    IF n = 0 THEN { << >> }
    ELSE LET shorter == Strings(n - 1)
         IN  shorter \cup { Append(s, c) : s \in shorter, c \in Chars }

\* token positions of the encoded tweet
TokIdx == {0, 1}

\* (start_char, end_char) of a token
OffsetPairs == { o \in (0 .. MaxTweetLen) \X (0 .. MaxTweetLen) : o[1] <= o[2] }

OneProcess ==
    [world_size |-> 1, device_count |-> 1, epochs |-> 1, patience |-> 1,
     len_df_train |-> 1, len_df_valid |-> 1, train_batch_size |-> 1,
     valid_batch_size |-> 1]

InitJaccard ==
    /\ cfg = OneProcess
    /\ InitProcs
    /\ \E tweet \in Strings(MaxTweetLen), target \in Strings(MaxTweetLen - 1),
          idx_start \in TokIdx, idx_end \in TokIdx,
          input_offsets \in [1 .. Cardinality(TokIdx) -> OffsetPairs] :
          cj = [NoCall EXCEPT !.tweet = tweet, !.target = target,
                              !.idx_start = idx_start, !.idx_end = idx_end,
                              !.input_offsets = input_offsets]

\* lines 27-34: one call of cal_jaccard on the drawn arguments
CallCalJaccard ==
    /\ ~cj.called
    /\ LET r == cal_jaccard(cj.tweet, cj.target, cj.idx_start, cj.idx_end,
                            cj.input_offsets)
       IN  cj' = [cj EXCEPT !.called = TRUE, !.jac = r.jac, !.output = r.output]
    /\ UNCHANGED << cfg, procVars, files, writers, progress, resources >>

NextJaccard == CallCalJaccard

SpecJaccard == InitJaccard /\ [][NextJaccard]_vars

\* ================================================================== claims
\* the process is inside the epoch loop of its current fold (lines 196-210)
InFold(p) ==
    pc[p] \in {"loop", "train", "allreduce", "update", "sched_step", "eval", "report",
              "cleanup"}

\* p takes the step that starts an epoch: range(epochs) yields, train_fn is entered
StartsEpoch(p) == pc[p] = "loop" /\ pc'[p] = "train"

\* C1: once the stop flag of a fold's controller is set, no process starts
\* another training/evaluation epoch of that fold.
C1_NoEpochAfterStop ==
    [][ \A p \in Ranks :
          StartsEpoch(p) =>
             ~ \E q \in Ranks : InFold(q) /\ fold[q] = fold[p] /\ es[q].early_stop ]_vars

\* C2: in distributed mode every snapshot write is made by rank 0.
C2_OnlyRankZeroWrites ==
    distributed => \A w \in writers : w[1] = 0

\* several processes run, rank 0 has written a snapshot and a peer has
\* passed its own report step of that epoch without writing
C2_Witness ==
    /\ cfg.world_size > 1
    /\ << 0, 0 >> \in writers
    /\ \E p \in Ranks : p # 0 /\ fold[p] = 0 /\ epoch[p] >= 1

\* ---- the controller, seen through the scores printed in the fold
StrictlyIncreasing(log) ==
    \A i \in 1 .. Len(log) - 1 : RLess(log[i], log[i + 1])

\* entry i is higher than every entry before it
IsRecord(log, i) == \A j \in 1 .. i - 1 : RLess(log[j], log[i])

\* the position of the last entry that is higher than all before it
LastRecord(log) ==
    CHOOSE i \in 1 .. Len(log) :
        IsRecord(log, i) /\ \A k \in i + 1 .. Len(log) : ~IsRecord(log, k)

MaxOf(log) ==
    CHOOSE x \in { log[i] : i \in 1 .. Len(log) } :
        \A i \in 1 .. Len(log) : ~RLess(x, log[i])

\* C3: mode max, strictly increasing scores: the stop flag stays unset, the
\* counter is 0 after every call and every call persists a checkpoint (the
\* fold's file is the snapshot of the epoch of the latest call).
C3_IncreasingNeverStops ==
    \A p \in Ranks :
        (InFold(p) /\ jaccardLog[p] # << >> /\ StrictlyIncreasing(jaccardLog[p])) =>
            /\ ~es[p].early_stop
            /\ es[p].counter = 0
            /\ es[p].best_score = jaccardLog[p][Len(jaccardLog[p])]
            /\ files[fold[p]].exists
            /\ files[fold[p]].fold = fold[p]
            /\ files[fold[p]].epoch = Len(jaccardLog[p]) - 1

\* three calls of one fold with strictly increasing scores
C3_Witness ==
    \E p \in Ranks :
        /\ InFold(p)
        /\ Len(jaccardLog[p]) = 3
        /\ StrictlyIncreasing(jaccardLog[p])
        /\ es[p].counter = 0

\* C4: with patience p, every value at or below the recorded best adds one to
\* the counter, the stop flag is set exactly when the counter has reached p,
\* and no checkpoint is written after the one of the best value.
C4_PatienceCounts ==
    \A p \in Ranks :
        (InFold(p) /\ jaccardLog[p] # << >>) =>
            LET log == jaccardLog[p]
                r == LastRecord(log)
            IN  /\ es[p].counter = Len(log) - r
                /\ es[p].early_stop <=> (es[p].counter = cfg.patience)
                /\ es[p].counter <= cfg.patience
                /\ files[fold[p]].exists
                /\ files[fold[p]].epoch = r - 1

\* patience 2 and the scores 0.5, 0.5, 0.5
C4_Witness ==
    \E p \in Ranks :
        /\ InFold(p)
        /\ cfg.patience = 2
        /\ jaccardLog[p] = << Rat(1, 2), Rat(1, 2), Rat(1, 2) >>
        /\ es[p].counter = 2
        /\ es[p].early_stop
        /\ files[fold[p]].epoch = 0

\* C5: a score equal to the best seen so far is no improvement (counter
\* incremented, best unchanged, no checkpoint); the counter is reset only by a
\* score strictly above the best.
C5_EqualIsNoImprovement ==
    \A p \in Ranks :
        (InFold(p) /\ Len(jaccardLog[p]) >= 2) =>
            LET log == jaccardLog[p]
                n == Len(log)
                prev == SubSeq(log, 1, n - 1)
                best == MaxOf(prev)
            IN  /\ (log[n] = best) =>
                     /\ es[p].counter = (n - 1) - LastRecord(prev) + 1
                     /\ es[p].best_score = best
                     /\ files[fold[p]].epoch = LastRecord(prev) - 1
                /\ (es[p].counter = 0) => RLess(best, log[n])

\* a call whose score equals the best seen before it
C5_Witness ==
    \E p \in Ranks :
        /\ InFold(p)
        /\ Len(jaccardLog[p]) >= 2
        /\ jaccardLog[p][Len(jaccardLog[p])] =
              MaxOf(SubSeq(jaccardLog[p], 1, Len(jaccardLog[p]) - 1))
        /\ es[p].counter >= 1

\* C6: the file of a fold is written exactly at the improvements of that fold:
\* it holds the model as it was after the epoch whose score is the controller's
\* best, it holds a model of no other fold, and it does not exist before the
\* fold's first evaluation.
C6_FileHoldsBest ==
    /\ \A f \in Folds :
          files[f].exists =>
             /\ files[f].fold = f
             /\ \E p \in Ranks :
                   \/ fold[p] > f
                   \/ fold[p] = f /\ (InFold(p) \/ pc[p] = "done") /\ jaccardLog[p] # << >>
    /\ \A p \in Ranks :
          ((InFold(p) \/ pc[p] = "done") /\ jaccardLog[p] # << >>) =>
             LET log == jaccardLog[p]
                 r == LastRecord(log)
             IN  /\ files[fold[p]].exists
                 /\ files[fold[p]].epoch = r - 1
                 /\ files[fold[p]].version = r * Len(train_data_loader)
                 /\ log[r] = es[p].best_score

\* in the second fold: the first fold's file is kept, the second fold's file
\* was written at the second epoch and not at the third
C6_Witness ==
    \E p \in Ranks :
        /\ fold[p] = 1 /\ InFold(p)
        /\ files[0].exists /\ files[0].epoch = 0
        /\ files[1].exists /\ files[1].epoch = 1
        /\ Len(jaccardLog[p]) = 3

\* ---- cal_jaccard (specification SpecJaccard)
\* C7: a call with idx_end < idx_start returns the text and the score of the
\* call with idx_end = idx_start, the single-token span at idx_start.
C7_ReversedSpanIsSingleToken ==
    (cj.called /\ cj.idx_end < cj.idx_start) =>
        LET one == cal_jaccard(cj.tweet, cj.target, cj.idx_start, cj.idx_start,
                               cj.input_offsets)
            tok == cj.input_offsets[cj.idx_start + 1]
        IN  /\ cj.output = one.output
            /\ cj.jac = one.jac
            /\ cj.output = Slice(cj.tweet, tok[1], tok[2])

\* a reversed span whose start token is not empty
C7_Witness ==
    /\ cj.called
    /\ cj.idx_end < cj.idx_start
    /\ cj.output # << >>

\* C8: an empty extracted text scored against a target without tokens gives
\* the score 1.
C8_EmptyAgainstEmptyIsOne ==
    (cj.called /\ cj.output = << >> /\ TokenSet(cj.target) = {}) => cj.jac = RInt(1)

\* an empty span of a tweet that has tokens, against an empty target
C8_Witness ==
    /\ cj.called
    /\ cj.output = << >>
    /\ cj.target = << >>
    /\ TokenSet(cj.tweet) # {}
    /\ cj.jac = RInt(1)

\* ---- accumulators and progress
RECURSIVE WeightedSum(_)
WeightedSum(log) ==
    IF log = << >> THEN RInt(0)
    ELSE RAdd(RMul(log[1][1], RInt(log[1][2])), WeightedSum(Tail(log)))

RECURSIVE SampleCount(_)
SampleCount(log) == IF log = << >> THEN 0 ELSE log[1][2] + SampleCount(Tail(log))

WeightedMean(log) == RDiv(WeightedSum(log), RInt(SampleCount(log)))

\* C9: after the updates (x1,n1),...,(xk,nk) the running average of the score
\* accumulator is (x1*n1 + ... + xk*nk)/(n1 + ... + nk), and the value
\* eval_fn returns is that mean over all batches of the loader.
C9_EvalReturnsWeightedMean ==
    \A p \in Ranks :
        /\ (pc[p] = "eval" /\ evalLog[p] # << >>) =>
              /\ Len(evalLog[p]) = bi[p]
              /\ jaccards[p].count = SampleCount(evalLog[p])
              /\ jaccards[p].avg = WeightedMean(evalLog[p])
        /\ (pc[p] = "report") =>
              /\ Len(evalLog[p]) = Len(valid_data_loader)
              /\ jaccard[p] = WeightedMean(evalLog[p])

\* eval_fn has returned after two batches of different sizes and different
\* mean scores
C9_Witness ==
    \E p \in Ranks :
        /\ pc[p] = "report"
        /\ Len(evalLog[p]) = 2
        /\ evalLog[p][1][2] # evalLog[p][2][2]
        /\ evalLog[p][1][1] # evalLog[p][2][1]

\* C10 as claimed: in distributed mode only rank 0 reports per-batch progress.
C10_OnlyRankZeroProgress ==
    distributed => \A e \in progress : e[1] = 0

\* C10 as amended: every process that has trained a batch, or scored an
\* evaluation batch, has reported per-batch progress, whatever its rank; the
\* per-epoch score line is printed by rank 0 alone.
C10_EveryRankShowsProgress ==
    \A p \in Ranks :
        /\ (scheduler[p].steps > 0 \/ fold[p] > 0) => << p, "train" >> \in progress
        /\ (evalLog[p] # << >>) => << p, "eval" >> \in progress
        /\ (distributed /\ jaccardLog[p] # << >>) => p = 0

\* a process of rank 1 has reported progress in train_fn and in eval_fn
C10_Witness ==
    /\ cfg.world_size > 1
    /\ << 1, "train" >> \in progress
    /\ << 1, "eval" >> \in progress
    /\ jaccardLog[0] # << >>

\* ---- the process group
\* q has left fold f for good: it runs a later fold, or is past the epoch loop
\* of f
HasLeftFold(q, f) ==
    \/ fold[q] > f
    \/ fold[q] = f /\ pc[q] \in {"cleanup", "done", "crashed"}

\* C11: no process waits at the gradient reduction of a training step that a
\* peer of its group will never execute (the peer has already left the fold).
C11_NoReduceWithoutPeer ==
    \A p \in Ranks :
        pc[p] = "allreduce" => ~ \E q \in Ranks : HasLeftFold(q, fold[p])

\* ---- the epoch loop
\* p is inside the body of an epoch, before the controller call
InTrainFn(p) == pc[p] \in {"train", "allreduce", "update", "sched_step"}
InEvalFn(p) == pc[p] = "eval"

\* where an epoch's body stands: the sampler carries the epoch index, train_fn
\* has taken epoch * batches + bi optimizer steps, eval_fn starts after all
\* training batches, and the score at the controller call is the one of the
\* evaluation that has just run over the whole validation loader
EpochStepsInOrder(p) ==
    /\ (InTrainFn(p) \/ InEvalFn(p) \/ pc[p] = "report") =>
          /\ distributed => train_sampler[p].epoch = epoch[p]
          /\ epoch[p] < cfg.epochs
    /\ InTrainFn(p) =>
          /\ scheduler[p].steps = epoch[p] * Len(train_data_loader) + bi[p]
          /\ evalLog[p] = << >>
    /\ (InEvalFn(p) \/ pc[p] = "report") =>
          scheduler[p].steps = (epoch[p] + 1) * Len(train_data_loader)
    /\ pc[p] = "report" =>
          /\ Len(evalLog[p]) = Len(valid_data_loader)
          /\ jaccard[p] = WeightedMean(evalLog[p])

\* p takes the step that ends an epoch's body (lines 205-210)
EndsEpoch(p) == pc[p] = "report" /\ pc'[p] # "report"

\* the controller is called, once, with the score of this epoch's evaluation
ControllerFed(p) == es'[p] = EarlyStopping_call(es[p], jaccard[p]).es

EpochBodyOrdered == \A p \in Ranks : EpochStepsInOrder(p)

\* C12: in every process each epoch of a fold re-seeds the sampler with the
\* epoch index, runs one full training pass, then one full evaluation pass,
\* then calls the controller once with the score of that evaluation.
C12_EpochStepsThenController ==
    /\ [] EpochBodyOrdered
    /\ [][ \A p \in Ranks : EndsEpoch(p) => ControllerFed(p) ]_vars

\* ---- the controller of a fold
\* epochs of the current fold whose body p has completed
CompletedEpochs(p) ==
    IF pc[p] = "loop" THEN epoch[p]
    ELSE IF pc[p] = "cleanup" THEN (IF epoch[p] < cfg.epochs THEN epoch[p] + 1 ELSE epoch[p])
    ELSE epoch[p]

\* the controller of p is as line 193 built it
ControllerFresh(p) == es[p] = EarlyStopping(cfg.patience, "max")

\* at the start of every fold's epoch loop the controller is fresh; on the
\* process that calls it, its state is a function of this fold's scores alone
ControllerFreshPerFold ==
    \A p \in Ranks :
        /\ (pc[p] = "loop" /\ epoch[p] = 0) => ControllerFresh(p)
        /\ (InFold(p) /\ jaccardLog[p] # << >>) =>
              /\ es[p].best_score = MaxOf(jaccardLog[p])
              /\ es[p].counter = Len(jaccardLog[p]) - LastRecord(jaccardLog[p])

\* C13: the controller is fresh at the start of every fold and, in every
\* process, has been called exactly once for every completed epoch of the fold
\* (so that from the first completed epoch on it holds that fold's best score).
C13_FreshAndFedEveryEpoch ==
    /\ ControllerFreshPerFold
    /\ \A p \in Ranks :
          pc[p] \in {"loop", "cleanup"} =>
             /\ Len(jaccardLog[p]) = CompletedEpochs(p)
             /\ CompletedEpochs(p) >= 1 => es[p].best_score # NoScore

\* ---- batches
\* samples in the first k batches of a loader
RECURSIVE PrefixSum(_, _)
PrefixSum(loader, k) == IF k = 0 THEN 0 ELSE PrefixSum(loader, k - 1) + loader[k]

\* C14: after k iterations train_fn / eval_fn has processed the first k batches
\* of its loader, each once and in the loader's order, with one update of each
\* accumulator per batch; it returns after the last batch and not before.
C14_EveryBatchOnce ==
    \A p \in Ranks :
        /\ InTrainFn(p) =>
              /\ bi[p] <= Len(train_data_loader)
              /\ pc[p] # "train" => bi[p] < Len(train_data_loader)
              /\ losses[p].count = PrefixSum(train_data_loader, bi[p])
              /\ jaccards[p].count = PrefixSum(train_data_loader, bi[p])
              /\ scheduler[p].steps = epoch[p] * Len(train_data_loader) + bi[p]
        /\ InEvalFn(p) =>
              /\ bi[p] <= Len(valid_data_loader)
              /\ losses[p].count = PrefixSum(valid_data_loader, bi[p])
              /\ jaccards[p].count = PrefixSum(valid_data_loader, bi[p])
              /\ evalLog[p] # << >> =>
                    /\ Len(evalLog[p]) = bi[p]
                    /\ \A i \in 1 .. bi[p] : evalLog[p][i][2] = valid_data_loader[i]
              /\ scheduler[p].steps = (epoch[p] + 1) * Len(train_data_loader)
        /\ pc[p] = "report" =>
              /\ Len(evalLog[p]) = Len(valid_data_loader)
              /\ \A i \in 1 .. Len(evalLog[p]) : evalLog[p][i][2] = valid_data_loader[i]

\* both loaders hold a full batch followed by a smaller last one, and both
\* passes of the epoch are through
C14_Witness ==
    \E p \in Ranks :
        /\ pc[p] = "report"
        /\ Len(train_data_loader) = 2 /\ train_data_loader[1] # train_data_loader[2]
        /\ Len(valid_data_loader) = 2 /\ valid_data_loader[1] # valid_data_loader[2]
        /\ optimizer[p].steps = 2
        /\ Len(evalLog[p]) = 2

\* ---- one training step
\* steps taken in this fold before the batch at hand
StepsBefore(p) == epoch[p] * Len(train_data_loader) + bi[p]

\* C15: every training batch clears the gradients, runs forward, loss and
\* backward pass, then takes one optimizer step and after it one scheduler
\* step; after an epoch of n batches both counters have advanced by n.
C15_TrainStepOrder ==
    \A p \in Ranks :
        /\ pc[p] = "train" =>
              /\ optimizer[p].steps = StepsBefore(p)
              /\ scheduler[p].steps = StepsBefore(p)
        /\ pc[p] \in {"allreduce", "update"} =>
              /\ model[p].grads = 1
              /\ optimizer[p].steps = StepsBefore(p)
              /\ scheduler[p].steps = StepsBefore(p)
        /\ pc[p] = "sched_step" =>
              /\ model[p].grads = 1
              /\ optimizer[p].steps = StepsBefore(p) + 1
              /\ scheduler[p].steps = StepsBefore(p)
        /\ (InEvalFn(p) \/ pc[p] = "report") =>
              /\ optimizer[p].steps = (epoch[p] + 1) * Len(train_data_loader)
              /\ scheduler[p].steps = (epoch[p] + 1) * Len(train_data_loader)
        /\ InFold(p) =>
              /\ model[p].version = optimizer[p].steps
              /\ scheduler[p].steps <= optimizer[p].steps
              /\ optimizer[p].steps <= scheduler[p].steps + 1

\* between the optimizer step and the scheduler step of the second batch of
\* an epoch
C15_Witness ==
    \E p \in Ranks :
        /\ pc[p] = "sched_step"
        /\ bi[p] = 1
        /\ optimizer[p].steps = 2
        /\ scheduler[p].steps = 1

\* ---- evaluation
\* p takes a step of eval_fn: it enters it, scores a batch, or returns from it
EvalFnStep(p) == pc[p] = "eval" \/ pc'[p] = "eval"

\* C16: no step of eval_fn changes the parameters or the gradients of the
\* model, the optimizer or the scheduler, so they are after its return what
\* they were at its call.
C16_EvalLeavesStateUnchanged ==
    [][ \A p \in Ranks :
          EvalFnStep(p) =>
             /\ model'[p].version = model[p].version
             /\ model'[p].grads = model[p].grads
             /\ optimizer'[p] = optimizer[p]
             /\ scheduler'[p] = scheduler[p] ]_vars

\* eval_fn has returned in the second epoch, on a model that two optimizer
\* steps have trained
C16_Witness ==
    \E p \in Ranks :
        /\ pc[p] = "report"
        /\ epoch[p] = 1
        /\ Len(evalLog[p]) >= 1
        /\ model[p].version = 2
        /\ optimizer[p].steps = 2 /\ scheduler[p].steps = 2

\* ---- folds
\* the fold argument of p's train() call changes only by train() returning
\* and the script calling it for the next fold (lines 285-289)
FoldsInSequence(p) ==
    fold'[p] # fold[p] => (fold'[p] = fold[p] + 1 /\ pc[p] = "cleanup" /\ pc'[p] = "start")

\* what p still references was built by its current train() call, and between
\* two calls, and after the last, it references nothing
OneFoldLive(p) ==
    /\ \A r \in resources[p] : r[1] = fold[p]
    /\ pc[p] \in {"start", "done"} => resources[p] = {}
    /\ pc[p] \in {"start", "done"} =>
          ~model[p].live /\ ~optimizer[p].live /\ ~scheduler[p].live

\* C17: each process runs the folds 0 to 4 one after another, and the objects
\* of a fold are released, after an early stop as after the last epoch, before
\* the next fold builds its own: never are two folds' objects live in a process.
C17_OneFoldAtATime ==
    /\ [] (\A p \in Ranks : OneFoldLive(p))
    /\ [][ \A p \in Ranks : FoldsInSequence(p) ]_vars

\* a process is about to build the objects of fold 2; fold 1 ended by an early
\* stop before its last epoch
C17_Witness ==
    \E p \in Ranks :
        /\ pc[p] = "start"
        /\ fold[p] = 2
        /\ es[p].early_stop
        /\ epoch[p] + 1 < cfg.epochs
        /\ resources[p] = {}

\* ---- the optimizer's learning rate
\* C18: whatever the number of visible devices, num_device is bound when the
\* optimizer is built, so train() builds it and reaches the epoch loop.
C18_NumDeviceDefined ==
    \A p \in Ranks :
        /\ pc[p] = "build_opt" => num_device[p] # 0
        /\ pc[p] # "crashed"

\* ---- the learning-rate schedule
\* C19: in a fold that is not stopped early the scheduler is never stepped
\* more often than the num_training_steps it was built with.
C19_StepsWithinSchedule ==
    \A p \in Ranks :
        (InFold(p) /\ ~es[p].early_stop) =>
            scheduler[p].steps <= scheduler[p].num_training_steps

====
